---- MODULE Spec2Model ----
(***************************************************************************)
(* Page-state determination and caching of sequential-storage              *)
(* (src/src/cache.rs): the StateQuery trait with its default               *)
(* get_page_state (the page state oracle), NoCache and PageStateCache,     *)
(* running against a NOR flash device.                                     *)
(***************************************************************************)
EXTENDS Integers, Sequences, FiniteSets, TLC

\* Number of pages of the managed range (const generic PAGE_COUNT).
PAGE_COUNT == 2

\* Largest READ_SIZE of the devices the oracle is checked on.
MaxReadSize == 2

\* Device reads of the NoCache run up to which the comparative scenario of
\* the two strategies is followed.
MaxReads == 8

\* const HALF_MARKER_BITS: u32 = 4;
HALF_MARKER_BITS == 4

VARIABLES
    READ_SIZE,      \* S::READ_SIZE of the device type the program is built for
    ERASE_SIZE,     \* S::ERASE_SIZE of that device type
    flash,          \* device memory of the managed range: address -> byte
    strategy,       \* which impl of StateQuery the consumer holds
    dirty,          \* PageStateCache.dirty_cache.dirty
    pages,          \* PageStateCache.pages: page index -> None or a PageState
    pc,             \* position of the in-flight get_page_state future
    page_index,     \* argument of the in-flight get_page_state
    start_marked,   \* local of the in-flight get_page_state
    log,            \* device reads issued so far by the in-flight call
    last,           \* the consumer's latest operation: the call in flight,
                    \* or the last completed one with what it returned
    memo,           \* per page: result of the last successful get_page_state
                    \* with no device mutation, notice or invalidation since
    was_open,       \* per page: the page was Open in an earlier state
    established,    \* per page: what the latest notice_page_state or missing
                    \* get_page_state since the last invalidation gave
    twin            \* comparative scenario: the device of the NoCache run
                    \* and what both runs have returned, read and written

\* The associated constants of the NorFlash implementation S.
device == <<READ_SIZE, ERASE_SIZE>>

vars == <<READ_SIZE, ERASE_SIZE, flash, strategy, dirty, pages, pc, page_index,
          start_marked, log, last, memo, was_open, established, twin>>

None == "None"
PageState == {"Open", "PartialOpen", "Closed"}
Strategies == {"NoCache", "PageStateCache"}
\* Values of S::Error the device can fail a read with.
DeviceErrors == {"E1", "E2"}
Pages == 0 .. (PAGE_COUNT - 1)
NoIndex == 0 - 1

\* Result<PageState, Error<S::Error>>
Ok(state) == <<"Ok", state>>
ErrStorage(e) == <<"Storage", e>>
ErrCorrupted == <<"Corrupted", "-">>
NoResult == <<"None", "-">>

\* The managed range starts one erase unit into the device.
flash_range == [start |-> ERASE_SIZE, end |-> ERASE_SIZE * (1 + PAGE_COUNT)]

Addresses == flash_range.start .. (flash_range.end - 1)

\* Erased NOR flash reads back all ones.
ERASED == 255

\* calculate_page_address::<S>(flash_range, page_index)
calculate_page_address(range, index) == range.start + index * ERASE_SIZE

RECURSIVE count_ones(_)
count_ones(byte) ==
    IF byte = 0 THEN 0 ELSE (byte % 2) + count_ones(byte \div 2)

\* u8::count_zeros
count_zeros(byte) == 8 - count_ones(byte)

RECURSIVE sum(_)
sum(s) == IF s = <<>> THEN 0 ELSE Head(s) + sum(Tail(s))

\* flash.read(address, &mut buffer[..S::READ_SIZE]) when it succeeds
read(address) == [k \in 1 .. READ_SIZE |-> flash[address + k - 1]]

\* Mutant of marked: the threshold grows with the number of bytes read.
marked_scaled(buffer) ==
    sum([k \in 1 .. Len(buffer) |-> count_zeros(buffer[k])])
        >= HALF_MARKER_BITS * Len(buffer)

\* buffer[..S::READ_SIZE].iter().map(count_zeros).sum::<u32>() >= HALF_MARKER_BITS
marked(buffer) ==
    sum([k \in 1 .. Len(buffer) |-> count_zeros(buffer[k])]) >= HALF_MARKER_BITS

\* Mutant of page_state: an end marker without a start marker reads as Open.
page_state_end_only_open(start, end) ==
    IF start /\ end THEN Ok("Closed")
    ELSE IF start /\ ~end THEN Ok("PartialOpen")
    ELSE Ok("Open")

\* Mutant of page_state: a start marker alone decides PartialOpen.
page_state_start_is_partial(start, end) ==
    IF start THEN Ok("PartialOpen")
    ELSE IF end THEN ErrCorrupted
    ELSE Ok("Open")

\* match (start_marked, end_marked)
page_state(start, end) ==
    IF start /\ end THEN Ok("Closed")
    ELSE IF start /\ ~end THEN Ok("PartialOpen")
    ELSE IF ~start /\ end THEN ErrCorrupted
    ELSE Ok("Open")

\* Mutant of end_marker_address: the word after the start marker is read.
end_marker_address_second_word(page_address) == page_address + READ_SIZE

\* Address of the second read of the oracle.
end_marker_address(page_address) == page_address + (ERASE_SIZE - READ_SIZE)

\* Mutant of store: the result of a miss is returned but not memoized.
store_never(index, result) == pages

\* Mutant of store: a failed oracle call leaves Open in the slot.
store_failure_as_open(index, result) ==
    IF strategy = "PageStateCache"
    THEN [pages EXCEPT ![index] = IF result[1] = "Ok" THEN result[2] ELSE "Open"]
    ELSE pages

\* Mutant of store: the result of a miss lands in the slot of the next page.
store_neighbour(index, result) ==
    IF strategy = "PageStateCache" /\ result[1] = "Ok"
    THEN [pages EXCEPT ![(index + 1) % PAGE_COUNT] = result[2]]
    ELSE pages

\* The slot a finished oracle call leaves behind in PageStateCache.pages.
store(index, result) ==
    IF strategy = "PageStateCache" /\ result[1] = "Ok"
    THEN [pages EXCEPT ![index] = result[2]]
    ELSE pages

Record(op, index, state, result, reads) ==
    [op |-> op, index |-> index, state |-> state, result |-> result,
     log |-> reads, after |-> "-"]

\* get_page_state(index) in flight, called right after the operation `last`.
Call(index) ==
    [op |-> "call", index |-> index, state |-> None, result |-> NoResult,
     log |-> <<>>, after |-> last.op]

Idle ==
    /\ pc' = "idle"
    /\ page_index' = NoIndex
    /\ start_marked' = FALSE
    /\ log' = <<>>

NoMemo == [i \in Pages |-> NoResult]

Remember(index, result) ==
    IF result[1] = "Ok" THEN [memo EXCEPT ![index] = result] ELSE memo

\* The return of get_page_state(page_index) with `result` after `reads`.
Return(index, result, reads) ==
    /\ Idle
    /\ last' = Record("get", index, None, result, reads)
    /\ memo' = Remember(index, result)

(***************************************************************************)
(* The device (embedded_storage_async NorFlash, mock_flash in the tests).  *)
(***************************************************************************)
RECURSIVE bit_and(_, _)
bit_and(a, b) ==
    IF a = 0 \/ b = 0 THEN 0
    ELSE (a % 2) * (b % 2) + 2 * bit_and(a \div 2, b \div 2)

\* Bytes the consumer programs into the device in the cache scenarios.
WriteValues == {240}

\* flash.write: programming can only clear bits.
flash_write(address, byte) ==
    /\ pc = "idle"
    /\ flash' = [flash EXCEPT ![address] = bit_and(@, byte)]
    /\ last' = Record("write", NoIndex, None, NoResult, <<>>)
    /\ memo' = NoMemo
    /\ UNCHANGED <<device, strategy, dirty, pages, pc, page_index,
                   start_marked, log>>

\* flash.erase of one page: every byte of the erase unit reads back ERASED.
flash_erase(index) ==
    /\ pc = "idle"
    /\ LET from == calculate_page_address(flash_range, index)
       IN  flash' = [a \in Addresses |->
                        IF a >= from /\ a < from + ERASE_SIZE
                        THEN ERASED ELSE flash[a]]
    /\ last' = Record("erase", NoIndex, None, NoResult, <<>>)
    /\ memo' = NoMemo
    /\ UNCHANGED <<device, strategy, dirty, pages, pc, page_index,
                   start_marked, log>>

(***************************************************************************)
(* StateQuery: NoCache (every method but get_page_state a no-op) and       *)
(* PageStateCache.                                                         *)
(***************************************************************************)
\* Mutant of invalidate_cache_state: the slots survive.
invalidate_keeps_slots ==
    /\ pc = "idle"
    /\ dirty' = IF strategy = "PageStateCache" THEN FALSE ELSE dirty
    /\ last' = Record("invalidate", NoIndex, None, NoResult, <<>>)
    /\ memo' = NoMemo
    /\ UNCHANGED <<device, flash, strategy, pages, pc, page_index, start_marked, log>>

\* Mutant of invalidate_cache_state: the dirty flag survives.
invalidate_keeps_dirty ==
    /\ pc = "idle"
    /\ pages' = IF strategy = "PageStateCache"
                THEN [i \in Pages |-> None] ELSE pages
    /\ last' = Record("invalidate", NoIndex, None, NoResult, <<>>)
    /\ memo' = NoMemo
    /\ UNCHANGED <<device, flash, strategy, dirty, pc, page_index, start_marked, log>>

invalidate_cache_state ==
    /\ pc = "idle"
    /\ dirty' = IF strategy = "PageStateCache" THEN FALSE ELSE dirty
    /\ pages' = IF strategy = "PageStateCache"
                THEN [i \in Pages |-> None] ELSE pages
    /\ last' = Record("invalidate", NoIndex, None, NoResult, <<>>)
    /\ memo' = NoMemo
    /\ UNCHANGED <<device, flash, strategy, pc, page_index, start_marked, log>>

\* Mutant of mark_dirty: marking the cache dirty drops its slots.
mark_dirty_drops_slots ==
    /\ pc = "idle"
    /\ dirty' = IF strategy = "PageStateCache" THEN TRUE ELSE dirty
    /\ pages' = [i \in Pages |-> None]
    /\ last' = Record("mark_dirty", NoIndex, None, NoResult, <<>>)
    /\ UNCHANGED <<device, flash, strategy, pc, page_index,
                   start_marked, log, memo>>

mark_dirty ==
    /\ pc = "idle"
    /\ dirty' = IF strategy = "PageStateCache" THEN TRUE ELSE dirty
    /\ last' = Record("mark_dirty", NoIndex, None, NoResult, <<>>)
    /\ UNCHANGED <<device, flash, strategy, pages, pc, page_index,
                   start_marked, log, memo>>

\* Mutant of unmark_dirty: the flag stays as it is.
unmark_dirty_keeps_flag ==
    /\ pc = "idle"
    /\ last' = Record("unmark_dirty", NoIndex, None, NoResult, <<>>)
    /\ UNCHANGED <<device, flash, strategy, dirty, pages, pc, page_index,
                   start_marked, log, memo>>

unmark_dirty ==
    /\ pc = "idle"
    /\ dirty' = IF strategy = "PageStateCache" THEN FALSE ELSE dirty
    /\ last' = Record("unmark_dirty", NoIndex, None, NoResult, <<>>)
    /\ UNCHANGED <<device, flash, strategy, pages, pc, page_index,
                   start_marked, log, memo>>

is_dirty == IF strategy = "PageStateCache" THEN dirty ELSE FALSE

\* Mutant of notice_page_state: the noticed state lands in every slot.
notice_page_state_all_slots(index, new_state) ==
    /\ pc = "idle"
    /\ dirty' = IF strategy = "PageStateCache" THEN TRUE ELSE dirty
    /\ pages' = IF strategy = "PageStateCache"
                THEN [i \in Pages |-> new_state] ELSE pages
    /\ last' = Record("notice", index, new_state, NoResult, <<>>)
    /\ memo' = NoMemo
    /\ UNCHANGED <<device, flash, strategy, pc, page_index, start_marked, log>>

\* Mutant of notice_page_state: a slot that is present is not overwritten.
notice_fills_absent_only(index, new_state) ==
    /\ pc = "idle"
    /\ dirty' = IF strategy = "PageStateCache" THEN TRUE ELSE dirty
    /\ pages' = IF strategy = "PageStateCache" /\ pages[index] = None
                THEN [pages EXCEPT ![index] = new_state] ELSE pages
    /\ last' = Record("notice", index, new_state, NoResult, <<>>)
    /\ memo' = NoMemo
    /\ UNCHANGED <<device, flash, strategy, pc, page_index, start_marked, log>>

notice_page_state(index, new_state) ==
    /\ pc = "idle"
    /\ dirty' = IF strategy = "PageStateCache" THEN TRUE ELSE dirty
    /\ pages' = IF strategy = "PageStateCache"
                THEN [pages EXCEPT ![index] = new_state] ELSE pages
    /\ last' = Record("notice", index, new_state, NoResult, <<>>)
    /\ memo' = NoMemo
    /\ UNCHANGED <<device, flash, strategy, pc, page_index, start_marked, log>>

\* match self.pages[page_index]: Some(state) is a hit. NoCache has no slots.
hit(index) == strategy = "PageStateCache" /\ pages[index] # None

\* Mutant of get_page_state: a state just noticed for the page is returned
\* by either strategy.
get_page_state_noticed(index) ==
    /\ pc = "idle"
    /\ IF hit(index)
       THEN /\ Return(index, Ok(pages[index]), <<>>)
       ELSE IF last.op = "notice" /\ last.index = index
       THEN /\ Return(index, Ok(last.state), <<>>)
       ELSE /\ pc' = "read_start"
            /\ page_index' = index
            /\ start_marked' = FALSE
            /\ log' = <<>>
            /\ last' = Call(index)
            /\ UNCHANGED memo
    /\ UNCHANGED <<device, flash, strategy, dirty, pages>>

\* Entry of get_page_state: a hit returns at once; otherwise the oracle
\* starts and suspends on its first read.
get_page_state(index) ==
    /\ pc = "idle"
    /\ IF hit(index)
       THEN /\ Return(index, Ok(pages[index]), <<>>)
       ELSE /\ pc' = "read_start"
            /\ page_index' = index
            /\ start_marked' = FALSE
            /\ log' = <<>>
            /\ last' = Call(index)
            /\ UNCHANGED memo
    /\ UNCHANGED <<device, flash, strategy, dirty, pages>>

Read(address, err) == [address |-> address, err |-> err]

\* Mutant of read_start_fails: the error is swallowed and the call goes on
\* to its second read.
read_start_fails_goes_on(e) ==
    /\ pc = "read_start"
    /\ LET page_address == calculate_page_address(flash_range, page_index)
       IN  log' = Append(log, Read(page_address, e))
    /\ start_marked' = FALSE
    /\ pc' = "read_end"
    /\ UNCHANGED <<device, flash, strategy, dirty, pages, page_index, last, memo>>

\* The first read fails: map_err(Error::Storage)? returns.
read_start_fails(e) ==
    /\ pc = "read_start"
    /\ LET page_address == calculate_page_address(flash_range, page_index)
       IN  Return(page_index, ErrStorage(e), Append(log, Read(page_address, e)))
    /\ UNCHANGED <<device, flash, strategy, dirty, pages>>

\* Mutant of read_start: the start marker of the first page is read for
\* every page.
read_start_first_page ==
    /\ pc = "read_start"
    /\ LET page_address == flash_range.start
       IN  /\ start_marked' = marked(read(page_address))
           /\ log' = Append(log, Read(page_address, None))
    /\ pc' = "read_end"
    /\ UNCHANGED <<device, flash, strategy, dirty, pages, page_index, last, memo>>

\* Mutant of read_start: PageStateCache fills the slot with a provisional
\* state as soon as the start marker is known.
read_start_stores_early ==
    /\ pc = "read_start"
    /\ LET page_address == calculate_page_address(flash_range, page_index)
           start == marked(read(page_address))
       IN  /\ start_marked' = start
           /\ log' = Append(log, Read(page_address, None))
           /\ pages' = IF strategy = "PageStateCache"
                       THEN [pages EXCEPT ![page_index] =
                                IF start THEN "PartialOpen" ELSE "Open"]
                       ELSE pages
    /\ pc' = "read_end"
    /\ UNCHANGED <<device, flash, strategy, dirty, page_index, last, memo>>

\* The first read succeeds: start_marked is set and the second read issued.
read_start ==
    /\ pc = "read_start"
    /\ LET page_address == calculate_page_address(flash_range, page_index)
       IN  /\ start_marked' = marked(read(page_address))
           /\ log' = Append(log, Read(page_address, None))
    /\ pc' = "read_end"
    /\ UNCHANGED <<device, flash, strategy, dirty, pages, page_index, last, memo>>

\* Mutant of read_end_fails: the failed read is issued again.
read_end_fails_retries(e) ==
    /\ pc = "read_end"
    /\ LET page_address == calculate_page_address(flash_range, page_index)
           address == end_marker_address(page_address)
       IN  log' = Append(log, Read(address, e))
    /\ UNCHANGED <<device, flash, strategy, dirty, pages, pc, page_index,
                   start_marked, last, memo>>

\* The second read fails.
read_end_fails(e) ==
    /\ pc = "read_end"
    /\ LET page_address == calculate_page_address(flash_range, page_index)
           address == end_marker_address(page_address)
       IN  Return(page_index, ErrStorage(e), Append(log, Read(address, e)))
    /\ UNCHANGED <<device, flash, strategy, dirty, pages>>

\* Mutant of read_end: once a call has seen a Closed page, every end marker
\* counts as programmed.
read_end_remembers_closed ==
    /\ pc = "read_end"
    /\ LET page_address == calculate_page_address(flash_range, page_index)
           address == end_marker_address(page_address)
           end_marked == \/ marked(read(address))
                         \/ \E j \in Pages : memo[j] = Ok("Closed")
           result == page_state(start_marked, end_marked)
       IN  /\ pages' = store(page_index, result)
           /\ Return(page_index, result, Append(log, Read(address, None)))
    /\ UNCHANGED <<device, flash, strategy, dirty>>

\* The second read succeeds: the oracle returns, and PageStateCache stores
\* an Ok state in the slot.
read_end ==
    /\ pc = "read_end"
    /\ LET page_address == calculate_page_address(flash_range, page_index)
           address == end_marker_address(page_address)
           end_marked == marked(read(address))
           result == page_state(start_marked, end_marked)
       IN  /\ pages' = store(page_index, result)
           /\ Return(page_index, result, Append(log, Read(address, None)))
    /\ UNCHANGED <<device, flash, strategy, dirty>>

\* The future of get_page_state is dropped while it awaits a read.
cancel ==
    /\ pc \in {"read_start", "read_end"}
    /\ last' = Record("cancel", page_index, None, NoResult, log)
    /\ Idle
    /\ UNCHANGED <<device, flash, strategy, dirty, pages, memo>>

\* What the oracle returns for page `index` of a device holding `memory`
\* whose reads all succeed.
oracle_on(memory, index) ==
    LET page_address == calculate_page_address(flash_range, index)
        word(address) == [k \in 1 .. READ_SIZE |-> memory[address + k - 1]]
    IN  page_state(marked(word(page_address)),
                   marked(word(end_marker_address(page_address))))

\* The page reads as Open on the device `memory`.
reads_open(memory, index) == oracle_on(memory, index) = Ok("Open")

\* Page `index` is Open now: on the device, in its slot, or as just reported.
open_now(index) ==
    \/ reads_open(flash, index)
    \/ pages[index] = "Open"
    \/ (last.op = "get" /\ last.index = index /\ last.result = Ok("Open"))

\* What the operation that has just finished establishes for page `index`
\* of a PageStateCache: the state passed to notice_page_state, the result
\* the oracle gave to a missing get_page_state, nothing after an invalidation.
establish(index) ==
    IF strategy = "NoCache" THEN established[index]
    ELSE IF last'.op = "invalidate" THEN None
    ELSE IF last'.op = "notice" /\ last'.index = index THEN last'.state
    ELSE IF /\ pc # "idle" /\ pc' = "idle"
            /\ last'.op = "get" /\ last'.index = index
            /\ last'.result[1] = "Ok"
         THEN last'.result[2]
    ELSE established[index]

\* Every step records which pages were Open before it and what it established.
Observe ==
    /\ was_open' = [i \in Pages |-> was_open[i] \/ open_now(i)]
    /\ established' = [i \in Pages |-> establish(i)]

\* A step of one consumer on one cache and one device.
History == Observe /\ UNCHANGED twin

NoTwin == [flash |-> <<>>,
           nc |-> [result |-> NoResult, reads |-> 0, io |-> <<"none">>],
           psc |-> [result |-> NoResult, reads |-> 0, io |-> <<"none">>]]

\* Mutant of Init: the cache is constructed with its first slot at Open.
Init_first_slot_open ==
    /\ READ_SIZE = 1
    /\ ERASE_SIZE = 2 * READ_SIZE
    /\ flash = [a \in Addresses |-> ERASED]
    /\ strategy \in Strategies
    /\ dirty = FALSE
    /\ pages = [i \in Pages |-> IF strategy = "PageStateCache" /\ i = 0
                                THEN "Open" ELSE None]
    /\ pc = "idle"
    /\ page_index = NoIndex
    /\ start_marked = FALSE
    /\ log = <<>>
    /\ last = Record("new", NoIndex, None, NoResult, <<>>)
    /\ memo = NoMemo
    /\ was_open = [i \in Pages |-> FALSE]
    /\ established = [i \in Pages |-> None]
    /\ twin = NoTwin

\* PageStateCache::new() / NoCache, on an erased device with READ_SIZE 1.
Init ==
    /\ READ_SIZE = 1
    /\ ERASE_SIZE = 2 * READ_SIZE
    /\ flash = [a \in Addresses |-> ERASED]
    /\ strategy \in Strategies
    /\ dirty = FALSE
    /\ pages = [i \in Pages |-> None]
    /\ pc = "idle"
    /\ page_index = NoIndex
    /\ start_marked = FALSE
    /\ log = <<>>
    /\ last = Record("new", NoIndex, None, NoResult, <<>>)
    /\ memo = NoMemo
    /\ was_open = [i \in Pages |-> FALSE]
    /\ established = [i \in Pages |-> None]
    /\ twin = NoTwin

Next ==
    \/ invalidate_cache_state /\ History
    \/ mark_dirty /\ History
    \/ unmark_dirty /\ History
    \/ \E i \in Pages, s \in PageState : notice_page_state(i, s) /\ History
    \/ \E i \in Pages : get_page_state(i) /\ History
    \/ read_start /\ History
    \/ \E e \in DeviceErrors : read_start_fails(e) /\ History
    \/ read_end /\ History
    \/ \E e \in DeviceErrors : read_end_fails(e) /\ History
    \/ cancel /\ History
    \/ \E a \in Addresses, b \in WriteValues : flash_write(a, b) /\ History
    \/ \E i \in Pages : flash_erase(i) /\ History

Spec == Init /\ [][Next]_vars

(***************************************************************************)
(* The oracle as a function of the device contents: devices of every       *)
(* supported READ_SIZE with one programmed page, one of whose markers      *)
(* holds any word over OracleBytes (partly programmed or bit-flipped)      *)
(* while the other is erased or fully programmed.                          *)
(***************************************************************************)
OracleBytes == {255, 254, 248, 240}

Word(byte) == [k \in 1 .. READ_SIZE |-> byte]

\* The contents of a page with the given start and end marker words.
page_image(start_word, end_word, filler, offset) ==
    IF offset < READ_SIZE THEN start_word[offset + 1]
    ELSE IF offset >= ERASE_SIZE - READ_SIZE
         THEN end_word[offset - (ERASE_SIZE - READ_SIZE) + 1]
         ELSE filler

InitOracle ==
    /\ READ_SIZE \in 1 .. MaxReadSize
    /\ ERASE_SIZE = 3 * READ_SIZE
    /\ \E p \in Pages, rich \in [1 .. READ_SIZE -> OracleBytes],
          plain \in {Word(ERASED), Word(0)}, filler \in {ERASED, 0},
          rich_first \in BOOLEAN :
          LET from == calculate_page_address(flash_range, p)
              start_word == IF rich_first THEN rich ELSE plain
              end_word == IF rich_first THEN plain ELSE rich
          IN  flash = [a \in Addresses |->
                          IF a >= from /\ a < from + ERASE_SIZE
                          THEN page_image(start_word, end_word, filler, a - from)
                          ELSE ERASED]
    /\ strategy \in Strategies
    /\ dirty = FALSE
    /\ pages = [i \in Pages |-> None]
    /\ pc = "idle"
    /\ page_index = NoIndex
    /\ start_marked = FALSE
    /\ log = <<>>
    /\ last = Record("new", NoIndex, None, NoResult, <<>>)
    /\ memo = NoMemo
    /\ was_open = [i \in Pages |-> FALSE]
    /\ established = [i \in Pages |-> None]
    /\ twin = NoTwin

NextOracle ==
    \/ \E i \in Pages : get_page_state(i) /\ History
    \/ read_start /\ History
    \/ read_end /\ History

SpecOracle == InitOracle /\ [][NextOracle]_vars

(***************************************************************************)
(* The comparative scenario of queue_tests: one sequence of consumer       *)
(* operations run with PageStateCache (flash, pages, dirty) and with       *)
(* NoCache (twin.flash), on devices whose reads succeed.  The consumer     *)
(* moves a page Open -> PartialOpen -> Closed by programming its markers   *)
(* and back to Open by erasing it, and notices every transition.           *)
(***************************************************************************)
\* A programmed marker word.
MARKER == 0

programmed(memory, address) ==
    [a \in DOMAIN memory |->
        IF a >= address /\ a < address + READ_SIZE
        THEN bit_and(memory[a], MARKER) ELSE memory[a]]

erased(memory, index) ==
    LET from == calculate_page_address(flash_range, index)
    IN  [a \in DOMAIN memory |->
            IF a >= from /\ a < from + ERASE_SIZE THEN ERASED ELSE memory[a]]

\* The marker the consumer programs after it has seen `result` for the page.
marker_to_write(index, result) ==
    LET page_address == calculate_page_address(flash_range, index)
    IN  IF result = Ok("Open") THEN page_address
        ELSE end_marker_address(page_address)

\* The state the page is in after that marker has been programmed.
state_after(result) == IF result = Ok("Open") THEN "PartialOpen" ELSE "Closed"

\* The NoCache run finishes the same query whenever the PageStateCache run
\* does: two reads of its own device, nothing kept.
Shadow ==
    /\ Observe
    /\ twin' = IF pc' = "idle" /\ last'.op = "get"
               THEN [twin EXCEPT
                        !.nc.result = oracle_on(twin.flash, last'.index),
                        !.nc.reads = @ + 2,
                        !.psc.result = last'.result,
                        !.psc.reads = @ + Len(last'.log)]
               ELSE twin

\* No transition is waiting for its notice_page_state.
Settled == last.op \notin {"write", "erase"}

pair_query(index) ==
    /\ Settled
    /\ twin.nc.reads + 2 <= MaxReads
    /\ get_page_state(index)
    /\ Shadow

\* The consumer programs the next marker of the page it has just queried.
pair_write(index) ==
    /\ pc = "idle"
    /\ last.op = "get" /\ last.index = index
    /\ twin.psc.result \in {Ok("Open"), Ok("PartialOpen")}
    /\ flash' = programmed(flash, marker_to_write(index, twin.psc.result))
    /\ twin' = [twin EXCEPT
                  !.flash = programmed(@, marker_to_write(index, twin.nc.result)),
                  !.psc.io = <<"write", marker_to_write(index, twin.psc.result)>>,
                  !.nc.io = <<"write", marker_to_write(index, twin.nc.result)>>]
    /\ last' = Record("write", index, state_after(twin.psc.result), NoResult, <<>>)
    /\ memo' = NoMemo
    /\ Observe
    /\ UNCHANGED <<device, strategy, dirty, pages, pc, page_index,
                   start_marked, log>>

\* The consumer erases a page to reuse it.
pair_erase(index) ==
    /\ pc = "idle"
    /\ Settled
    /\ flash' = erased(flash, index)
    /\ twin' = [twin EXCEPT !.flash = erased(@, index),
                            !.psc.io = <<"erase", index>>,
                            !.nc.io = <<"erase", index>>]
    /\ last' = Record("erase", index, "Open", NoResult, <<>>)
    /\ memo' = NoMemo
    /\ Observe
    /\ UNCHANGED <<device, strategy, dirty, pages, pc, page_index,
                   start_marked, log>>

\* Every transition is followed by notice_page_state for that page.
pair_notice ==
    /\ ~Settled
    /\ notice_page_state(last.index, last.state)
    /\ Shadow

pair_invalidate ==
    /\ Settled
    /\ invalidate_cache_state
    /\ Shadow

InitPair ==
    /\ READ_SIZE = 1
    /\ ERASE_SIZE = 2 * READ_SIZE
    /\ flash = [a \in Addresses |-> ERASED]
    /\ strategy = "PageStateCache"
    /\ dirty = FALSE
    /\ pages = [i \in Pages |-> None]
    /\ pc = "idle"
    /\ page_index = NoIndex
    /\ start_marked = FALSE
    /\ log = <<>>
    /\ last = Record("new", NoIndex, None, NoResult, <<>>)
    /\ memo = NoMemo
    /\ was_open = [i \in Pages |-> FALSE]
    /\ established = [i \in Pages |-> None]
    /\ twin = [NoTwin EXCEPT !.flash = flash]

NextPair ==
    \/ \E i \in Pages : pair_query(i)
    \/ read_start /\ Shadow
    \/ read_end /\ Shadow
    \/ \E i \in Pages : pair_write(i)
    \/ \E i \in Pages : pair_erase(i)
    \/ pair_notice
    \/ pair_invalidate

SpecPair == InitPair /\ [][NextPair]_vars

(***************************************************************************)
(* Storage that is opened again: the cache is new, the device holds the    *)
(* markers earlier runs have left in it, and the consumer goes on as in    *)
(* the comparative scenario.                                               *)
(***************************************************************************)
InitReopen ==
    /\ READ_SIZE = 1
    /\ ERASE_SIZE = 2 * READ_SIZE
    /\ flash \in [Addresses -> {ERASED, MARKER}]
    /\ strategy = "PageStateCache"
    /\ dirty = FALSE
    /\ pages = [i \in Pages |-> None]
    /\ pc = "idle"
    /\ page_index = NoIndex
    /\ start_marked = FALSE
    /\ log = <<>>
    /\ last = Record("new", NoIndex, None, NoResult, <<>>)
    /\ memo = NoMemo
    /\ was_open = [i \in Pages |-> FALSE]
    /\ established = [i \in Pages |-> None]
    /\ twin = [NoTwin EXCEPT !.flash = flash]

SpecReopen == InitReopen /\ [][NextPair]_vars

(***************************************************************************)
(* What the claims speak of, stated on the device contents.                *)
(***************************************************************************)
ZeroBits(byte) == Cardinality({k \in 0 .. 7 : (byte \div (2 ^ k)) % 2 = 0})

RECURSIVE ZeroBitsAt(_, _)
ZeroBitsAt(address, n) ==
    IF n = 0 THEN 0 ELSE ZeroBits(flash[address]) + ZeroBitsAt(address + 1, n - 1)

\* Zero bits of the READ_SIZE bytes at the start / at the end of page i.
StartZeroBits(i) == ZeroBitsAt(flash_range.start + i * ERASE_SIZE, READ_SIZE)
EndZeroBits(i) ==
    ZeroBitsAt(flash_range.start + (i + 1) * ERASE_SIZE - READ_SIZE, READ_SIZE)

\* The last operation was a get_page_state that went to the device and
\* whose two reads both succeeded.
OracleReturned ==
    /\ last.op = "get"
    /\ Len(last.log) = 2
    /\ last.log[1].err = None
    /\ last.log[2].err = None

\* C1: whenever the oracle (NoCache, or PageStateCache on a miss) has read a
\* page whose start marker has fewer than 4 zero bits and whose end marker
\* has at least 4, it returned the corruption failure, never a PageState.
C1_EndOnlyIsCorrupted ==
    (OracleReturned /\ StartZeroBits(last.index) < 4 /\ EndZeroBits(last.index) >= 4)
        => (last.result = ErrCorrupted /\ last.result[1] # "Ok")

C1_Witness ==
    /\ OracleReturned
    /\ strategy = "PageStateCache"
    /\ StartZeroBits(last.index) < 4
    /\ EndZeroBits(last.index) >= 4
    /\ last.result = ErrCorrupted

\* C2: when both marker reads succeed the oracle returns Open if neither
\* marker is set, PartialOpen if only the start marker is set, and Closed if
\* both are set.
C2_DecisionTable ==
    OracleReturned =>
        LET s == StartZeroBits(last.index) >= 4
            e == EndZeroBits(last.index) >= 4
        IN  /\ (~s /\ ~e) => last.result = Ok("Open")
            /\ (s /\ ~e) => last.result = Ok("PartialOpen")
            /\ (s /\ e) => last.result = Ok("Closed")

C2_Witness ==
    /\ OracleReturned
    /\ READ_SIZE = MaxReadSize
    /\ StartZeroBits(last.index) >= 4
    /\ EndZeroBits(last.index) = 0
    /\ last.result = Ok("PartialOpen")

C3_WitnessUnset ==
    /\ pc = "read_end"
    /\ ~start_marked
    /\ StartZeroBits(page_index) = 3

\* This step is a call of get_page_state: it returns at once or suspends.
GetCalled == pc = "idle" /\ last'.op \in {"get", "call"}

\* This step is the return of a get_page_state call.
GetReturns == pc' = "idle" /\ last'.op = "get"

AllAbsent == \A i \in Pages : pages[i] = None

\* C4: on a PageStateCache, once get_page_state(i) has succeeded, the next
\* get_page_state(i) with no device mutation, notice_page_state or
\* invalidate_cache_state in between reads nothing and returns the same value.
C4_RepeatedGetIsFree ==
    [][(strategy = "PageStateCache" /\ GetCalled /\ memo[last'.index] # NoResult)
          => (GetReturns /\ last'.log = <<>> /\ last'.result = memo[last'.index])]_vars

\* After a miss that read the device, the repeated call has returned the
\* memoized state without a read.
C4_Witness ==
    /\ strategy = "PageStateCache"
    /\ last.op = "get"
    /\ last.log = <<>>
    /\ last.result = Ok("Closed")
    /\ memo[last.index] = last.result
    /\ ~dirty
    /\ StartZeroBits(last.index) >= 4
    /\ EndZeroBits(last.index) >= 4

\* C5: on a PageStateCache, notice_page_state(i, s) leaves is_dirty() true,
\* and a get_page_state(i) right after it returns s without a device read.
C5_NoticeThenGet ==
    /\ []((strategy = "PageStateCache" /\ last.op = "notice") => is_dirty)
    /\ [][(strategy = "PageStateCache" /\ last.op = "notice" /\ GetCalled
            /\ last'.index = last.index)
          => (GetReturns /\ last'.log = <<>> /\ last'.result = Ok(last.state))]_vars

\* A state asserted against the device contents has been returned from the
\* slot, with the cache dirty.
C5_Witness ==
    /\ strategy = "PageStateCache"
    /\ last.op = "get"
    /\ last.log = <<>>
    /\ last.result = Ok("Closed")
    /\ is_dirty
    /\ StartZeroBits(last.index) = 0
    /\ \A j \in Pages \ {last.index} : pages[j] = None

C7_InvalidateResets ==
    /\ []((strategy = "PageStateCache" /\ last.op = "invalidate")
            => (AllAbsent /\ ~is_dirty))
    /\ [][(strategy = "PageStateCache" /\ pc = "idle" /\ pc' = "idle"
            /\ last'.op = "invalidate")
          => (flash' = flash /\ last'.log = <<>> /\ log' = <<>>)]_vars

C7_Witness ==
    /\ strategy = "PageStateCache"
    /\ last.op = "invalidate"
    /\ AllAbsent
    /\ ~dirty
    /\ \E i \in Pages : StartZeroBits(i) >= 4

\* C8: a get_page_state(i) on a PageStateCache that fails (a failed read or
\* corruption) was a miss and leaves every slot and the dirty flag as they
\* were, slot i absent, as does every step of the call before its return; a
\* slot only ever holds None or a PageState.
C8_FailureLeavesCache ==
    /\ [](\A i \in Pages : pages[i] \in PageState \cup {None})
    /\ [][(strategy = "PageStateCache" /\ GetReturns /\ last'.result[1] # "Ok")
          => (pages[last'.index] = None /\ pages' = pages /\ dirty' = dirty)]_vars
    /\ [][(strategy = "PageStateCache" /\ pc' # "idle")
          => (pages' = pages /\ dirty' = dirty)]_vars

C8_Witness ==
    /\ strategy = "PageStateCache"
    /\ last.op = "get"
    /\ last.result = ErrCorrupted
    /\ pages[last.index] = None
    /\ dirty
    /\ \E j \in Pages : pages[j] # None

\* C9: a get_page_state whose device read fails returns the storage error
\* carrying that read's error, and the failed read is the last read of the
\* call.
C9_ReadErrorPropagates ==
    last.op = "get" =>
        \A k \in 1 .. Len(last.log) :
            last.log[k].err # None =>
                (last.result = ErrStorage(last.log[k].err) /\ k = Len(last.log))

C9_Witness ==
    /\ last.op = "get"
    /\ Len(last.log) = 2
    /\ last.log[2].err = "E2"
    /\ last.result = ErrStorage("E2")

\* A get_page_state that went to the oracle: NoCache always does, and
\* PageStateCache has when the call read the device.
OracleInvoked == last.op = "get" /\ (strategy = "NoCache" \/ last.log # <<>>)

\* C10 as stated: every invocation of the oracle performs exactly two device
\* reads, whatever its outcome.
C10_Original == OracleInvoked => Len(last.log) = 2

\* C10 amended: every invocation of the oracle that returns has performed
\* exactly two device reads, unless its first read failed: then it has
\* performed exactly that one read. It never performs more than two.
C10_OracleReads ==
    /\ Len(log) <= 2
    /\ OracleInvoked =>
          /\ Len(last.log) \in {1, 2}
          /\ (Len(last.log) = 1 <=> last.log[1].err # None)

C10_Witness ==
    /\ OracleInvoked
    /\ strategy = "NoCache"
    /\ Len(last.log) = 1
    /\ last.result = ErrStorage("E1")

\* C11: dropping a get_page_state(i) of a PageStateCache while it awaits its
\* first or its second read leaves every slot and the dirty flag as they
\* were when the call was made, slot i absent: no step of the call before
\* its return changes them, and the next get_page_state(i) goes to the
\* device again.
C11_CancelLeavesCache ==
    /\ [][(strategy = "PageStateCache" /\ pc' # "idle")
            => (pages' = pages /\ dirty' = dirty)]_vars
    /\ [][(strategy = "PageStateCache" /\ pc # "idle" /\ last'.op = "cancel")
            => (pages' = pages /\ dirty' = dirty /\ pages'[last'.index] = None)]_vars
    /\ [][(strategy = "PageStateCache" /\ last.op = "cancel" /\ GetCalled
             /\ last'.index = last.index)
            => pc' = "read_start"]_vars

\* A call dropped while it awaited its second read, in a dirty cache that
\* holds another page.
C11_Witness ==
    /\ strategy = "PageStateCache"
    /\ last.op = "cancel"
    /\ Len(last.log) = 1
    /\ pages[last.index] = None
    /\ dirty
    /\ \E j \in Pages : pages[j] # None

\* C12: run on the same sequence of consumer operations, NoCache and
\* PageStateCache return the same result to every query, perform the same
\* writes and erases and leave the same device contents, and the
\* PageStateCache run has never read the device more often than the NoCache run.
C12_SameResultsFewerReads ==
    /\ twin.psc.result = twin.nc.result
    /\ twin.psc.io = twin.nc.io
    /\ twin.flash = flash
    /\ twin.psc.reads <= twin.nc.reads

\* A query answered from a slot that a notice filled, after a miss earlier
\* in the run: the page is Closed and fewer reads have been made.
C12_Witness ==
    /\ pc = "idle" /\ last.op = "get" /\ last.log = <<>>
    /\ twin.psc.result = Ok("Closed")
    /\ twin.psc.io[1] = "write"
    /\ twin.psc.reads > 0
    /\ twin.psc.reads < twin.nc.reads

\* C13: NoCache has no memory. Whatever invalidate_cache_state, mark_dirty,
\* unmark_dirty and notice_page_state calls came before, is_dirty() is false
\* and nothing is stored; every get_page_state call starts the oracle, and a
\* call whose reads succeed has read the device twice and returns what the
\* device holds at that time.
C13_NoCacheHasNoMemory ==
    /\ [](strategy = "NoCache" => (~is_dirty /\ ~dirty /\ AllAbsent))
    /\ [][(strategy = "NoCache" /\ GetCalled) => pc' = "read_start"]_vars
    /\ [][(strategy = "NoCache" /\ GetReturns /\ last'.result[1] # "Storage")
            => (/\ Len(last'.log) = 2
                /\ last'.result = oracle_on(flash, last'.index))]_vars

\* A call made right after notice_page_state for a page that is not Open on
\* the device, suspended on its second read.
C13_Witness ==
    /\ strategy = "NoCache"
    /\ pc = "read_end" /\ last.op = "call" /\ last.after = "notice"
    /\ ~reads_open(flash, page_index)

\* C14: in every state of a PageStateCache each slot holds what was most
\* recently established for its page since construction or the last
\* invalidation, by a missing get_page_state or by notice_page_state,
\* whichever came later; a slot nothing was established for is absent.
C14_SlotIsLatestEstablished ==
    strategy = "PageStateCache" => \A i \in Pages : pages[i] = established[i]

\* A miss has just filled one slot with Closed while another page holds the
\* PartialOpen that was noticed for it before.
C14_Witness ==
    /\ strategy = "PageStateCache" /\ dirty
    /\ pc = "idle" /\ last.op = "get" /\ Len(last.log) = 2
    /\ pages[last.index] = "Closed"
    /\ \E j \in Pages : j # last.index /\ pages[j] = "PartialOpen"

\* C15: slot i of a PageStateCache changes only in a notice_page_state for
\* page i, in a missing get_page_state for page i that succeeds (from absent
\* to present) or in invalidate_cache_state; every other step, and every
\* step for another page, leaves it alone, and there are always PAGE_COUNT
\* slots.
C15_SlotFrame ==
    /\ [](DOMAIN pages = Pages /\ Cardinality(DOMAIN pages) = PAGE_COUNT)
    /\ [][strategy = "PageStateCache" =>
            \A i \in Pages :
                pages'[i] # pages[i] =>
                    \/ last'.op = "notice" /\ last'.index = i
                    \/ /\ pc # "idle" /\ GetReturns
                       /\ last'.index = i /\ last'.result[1] = "Ok"
                       /\ pages[i] = None /\ pages'[i] # None
                    \/ last'.op = "invalidate" /\ pages'[i] = None]_vars

\* mark_dirty has just run on a cache that holds different states for two
\* pages.
C15_Witness ==
    /\ strategy = "PageStateCache" /\ last.op = "mark_dirty"
    /\ \E i, j \in Pages : pages[i] = "Closed" /\ pages[j] = "PartialOpen"

\* C16: is_dirty() of a PageStateCache is true exactly when the latest of
\* construction, mark_dirty, unmark_dirty, notice_page_state and
\* invalidate_cache_state was mark_dirty or notice_page_state; no step of
\* get_page_state changes it, whether the call hits, misses, fails or is
\* dropped.
C16_DirtyFollowsLastMark ==
    /\ (strategy = "PageStateCache" /\ last.op = "new") => ~is_dirty
    /\ [][strategy = "PageStateCache" =>
            /\ last'.op \in {"mark_dirty", "notice"} => is_dirty'
            /\ last'.op \in {"unmark_dirty", "invalidate"} => ~is_dirty'
            /\ last'.op \notin {"mark_dirty", "notice", "unmark_dirty", "invalidate"}
                    => is_dirty' = is_dirty]_vars

\* A missing get_page_state has failed on a dirty cache and left it dirty.
C16_Witness ==
    /\ strategy = "PageStateCache" /\ is_dirty
    /\ pc = "idle" /\ last.op = "get" /\ last.result[1] = "Storage"

\* C17: a PageStateCache that has just been constructed has every slot
\* absent and is not dirty, and a get_page_state for a page nothing has been
\* established for (the first call for that page) goes to the device.
C17_NewCacheIsEmpty ==
    /\ []((strategy = "PageStateCache" /\ last.op = "new")
            => (AllAbsent /\ ~is_dirty /\ Cardinality(DOMAIN pages) = PAGE_COUNT))
    /\ [][(/\ strategy = "PageStateCache" /\ GetCalled
           /\ (last.op = "new" \/ established[last'.index] = None))
            => (pc' = "read_start" /\ last'.op = "call")]_vars

\* The first call on a new cache, suspended on its first device read.
C17_Witness ==
    /\ strategy = "PageStateCache"
    /\ pc = "read_start" /\ last.op = "call" /\ last.after = "new"
    /\ AllAbsent /\ ~is_dirty

\* The reads an oracle call for page `index` has issued so far are the ones
\* the claim describes.
ReadsOfPage(index, reads) ==
    LET start == flash_range.start + index * ERASE_SIZE
    IN  /\ Len(reads) <= 2
        /\ Len(reads) >= 1 => reads[1].address = start
        /\ Len(reads) = 2 =>
            /\ reads[2].address = reads[1].address + ERASE_SIZE - READ_SIZE
            /\ reads[2].address + READ_SIZE = start + ERASE_SIZE
            /\ reads[1].address < reads[2].address
        /\ \A k \in 1 .. Len(reads) :
            /\ start <= reads[k].address
            /\ reads[k].address + READ_SIZE <= start + ERASE_SIZE

C19_OracleObservesOnly ==
    /\ [][(pc # "idle" \/ pc' # "idle" \/ last'.op = "get")
            => (flash' = flash /\ device' = device)]_vars
    /\ [][(GetReturns /\ Len(last'.log) = 2 /\ last'.result[1] # "Storage")
            => last'.result = oracle_on(flash', last'.index)]_vars
    /\ [][(GetReturns /\ last'.result[1] = "Storage")
            => (/\ last'.log # <<>>
                /\ last'.result = ErrStorage(last'.log[Len(last'.log)].err))]_vars
    /\ [][(/\ strategy = "NoCache" /\ GetReturns
           /\ memo[last'.index] # NoResult /\ last'.result[1] # "Storage")
            => last'.result = memo[last'.index]]_vars

\* A repeated NoCache call for a page that read as PartialOpen before, with
\* another page remembered as Closed, has made its first read.
C19_Witness ==
    /\ strategy = "NoCache" /\ pc = "read_end"
    /\ memo[page_index] = Ok("PartialOpen")
    /\ \E j \in Pages : memo[j] = Ok("Closed")

\* get_page_state has just reported page i as PartialOpen.
ReportedPartialOpen(i) ==
    pc = "idle" /\ last.op = "get" /\ last.index = i
    /\ last.result = Ok("PartialOpen")

\* The device holds page i partially closed: start marker programmed, end
\* marker not.
PartiallyClosed(i) ==
    StartZeroBits(i) >= HALF_MARKER_BITS /\ EndZeroBits(i) < HALF_MARKER_BITS

TypeOK ==
    /\ READ_SIZE \in 1 .. MaxReadSize
    /\ ERASE_SIZE \in {2 * READ_SIZE, 3 * READ_SIZE}
    /\ flash \in [Addresses -> 0 .. 255]
    /\ strategy \in Strategies
    /\ dirty \in BOOLEAN
    /\ pages \in [Pages -> PageState \cup {None}]
    /\ pc \in {"idle", "read_start", "read_end"}
    /\ page_index \in Pages \cup {NoIndex}
    /\ start_marked \in BOOLEAN
    /\ Len(log) <= 2
    /\ was_open \in [Pages -> BOOLEAN]
    /\ established \in [Pages -> PageState \cup {None}]

====
